---- MODULE Spec2Model ----
(***************************************************************************)
(* Model of packages/js/src/MatomoTracker.ts: the wrapper around the       *)
(* global command queue window._paq and the injection of the tracking      *)
(* script into the document.                                               *)
(*                                                                         *)
(* JavaScript values are modelled as follows.  A parameter object is a     *)
(* function whose DOMAIN is the set of keys that are present; an absent    *)
(* key reads as undefined.  Plain strings are TLA+ strings, URLs of the    *)
(* construction options are sequences of tokens (so that the last          *)
(* character can be inspected and a file name appended), numbers coming    *)
(* out of Number() are tokens starting with '#'.                           *)
(***************************************************************************)
EXTENDS Integers, Sequences, FiniteSets, TLC

VARIABLES
    paqDefined,   \* window._paq is not undefined
    paq,          \* window._paq, the global command queue (<<>> while undefined)
    doc,          \* the document's elements in document order
    instances,    \* number of MatomoTracker objects constructed so far
    listeners,    \* element -> number of click listeners attached to it
    binds,        \* number of trackEvents() calls so far
    calls,        \* number of tracking calls and clicks so far
    last,         \* the latest call: its name, arguments and thrown errors
    start         \* the page before the first call: its queue and document

vars == <<paqDefined, paq, doc, instances, listeners, binds, calls, last, start>>

----------------------------------------------------------------------------
(* Bounds of the model *)

MaxConstructions == 2
MaxBinds == 2
MaxCalls == 1

----------------------------------------------------------------------------
(* JavaScript values *)

Undefined == "<undefined>"

Get(o, k) == IF k \in DOMAIN o THEN o[k] ELSE Undefined

Restrict(o, K) == [k \in (DOMAIN o) \cap K |-> o[k]]

\* !s for a string-or-undefined value
Falsy(s) == s = Undefined \/ s = ""

\* !o.k for a URL-valued option
FalsyUrl(o, k) == k \notin DOMAIN o \/ o[k] = <<>>

\* s[s.length - 1] of a URL
LastChar(s) == IF Len(s) = 0 THEN Undefined ELSE s[Len(s)]

\* Number(s) on the dataset strings of the model
Number(s) ==
    CASE s = Undefined -> "#NaN"
      [] s = ""        -> "#0"
      [] s = "5"       -> "#5"
      [] OTHER         -> "#NaN"

----------------------------------------------------------------------------
(* ./constants *)

TRACK_TYPES ==
    [ TRACK_EVENT  |-> "trackEvent",
      TRACK_LINK   |-> "trackLink",
      TRACK_SEARCH |-> "trackSiteSearch",
      TRACK_VIEW   |-> "trackPageView" ]

\* the defaults supply no urlBase
defaultOptions == [k \in {} |-> Undefined]

----------------------------------------------------------------------------
(* The page: window.document.title, window.location.href, the document *)

documentTitleNow == "page title"
locationHref == "page href"

Div == [tag |-> "div", type |-> "", async |-> FALSE, defer |-> FALSE, src |-> <<>>]

PageScript ==
    [tag |-> "script", type |-> "", async |-> FALSE, defer |-> FALSE,
     src |-> <<"app.js">>]

\* doc.getElementsByTagName('script'): the positions of the script elements
ScriptPositions(d) == {i \in 1..Len(d) : d[i].tag = "script"}

\* index of doc.getElementsByTagName('script')[0], 0 when there is none
FirstScript(d) ==
    IF ScriptPositions(d) = {} THEN 0
    ELSE CHOOSE i \in ScriptPositions(d) : \A j \in ScriptPositions(d) : i <= j

\* parentNode.insertBefore(el, d[i])
InsertBefore(d, el, i) == SubSeq(d, 1, i - 1) \o <<el>> \o SubSeq(d, i, Len(d))

\* the elements carrying data attributes, by id
Elements ==
    [ btnOk       |-> [event |-> "click", category |-> "c", action |-> "a",
                       name |-> "n", value |-> "5"],
      btnNoAction |-> [event |-> "click", category |-> "c", action |-> Undefined,
                       name |-> Undefined, value |-> Undefined],
      plain       |-> [event |-> Undefined, category |-> "c", action |-> "a",
                       name |-> Undefined, value |-> Undefined] ]

\* document.querySelectorAll('[data-matomo-event="click"]')
querySelectorAll == {e \in DOMAIN Elements : Elements[e].event = "click"}

----------------------------------------------------------------------------
(* MatomoTracker.track: the queue after the call *)

RECURSIVE pushDimensions(_, _)
pushDimensions(q, dims) ==
    IF dims = <<>> THEN q
    ELSE pushDimensions(
             Append(q, <<"setCustomDimension", Head(dims).id, Head(dims).value>>),
             Tail(dims))

NoDimensions == [isArray |-> FALSE, items |-> <<>>]

\* track with the dimension tuples pushed after the custom URL
trackDimensionsAfterUrl(q, p) ==
    LET data == IF "data" \in DOMAIN p THEN p.data ELSE <<>>
        documentTitle == IF "documentTitle" \in DOMAIN p THEN p.documentTitle
                         ELSE documentTitleNow
        href == IF "href" \in DOMAIN p THEN p.href ELSE locationHref
        customDimensions == IF "customDimensions" \in DOMAIN p
                            THEN p.customDimensions ELSE NoDimensions
        q1 == Append(q, <<"setCustomUrl", href>>)
        q2 == IF customDimensions.isArray /\ Len(customDimensions.items) # 0
              THEN pushDimensions(q1, customDimensions.items)
              ELSE q1
    IN  IF Len(data) # 0
        THEN q2 \o << <<"setDocumentTitle", documentTitle>>, data >>
        ELSE q

\* track with the dimension tuples pushed before the data.length guard
trackDimensionsUnguarded(q, p) ==
    LET data == IF "data" \in DOMAIN p THEN p.data ELSE <<>>
        documentTitle == IF "documentTitle" \in DOMAIN p THEN p.documentTitle
                         ELSE documentTitleNow
        href == IF "href" \in DOMAIN p THEN p.href ELSE locationHref
        customDimensions == IF "customDimensions" \in DOMAIN p
                            THEN p.customDimensions ELSE NoDimensions
        q1 == IF customDimensions.isArray /\ Len(customDimensions.items) # 0
              THEN pushDimensions(q, customDimensions.items)
              ELSE q
    IN  IF Len(data) # 0
        THEN q1 \o << <<"setCustomUrl", href>>,
                      <<"setDocumentTitle", documentTitle>>,
                      data >>
        ELSE q1

track(q, p) ==
    LET data == IF "data" \in DOMAIN p THEN p.data ELSE <<>>
        documentTitle == IF "documentTitle" \in DOMAIN p THEN p.documentTitle
                         ELSE documentTitleNow
        href == IF "href" \in DOMAIN p THEN p.href ELSE locationHref
        customDimensions == IF "customDimensions" \in DOMAIN p
                            THEN p.customDimensions ELSE NoDimensions
        q1 == IF customDimensions.isArray /\ Len(customDimensions.items) # 0
              THEN pushDimensions(q, customDimensions.items)
              ELSE q
    IN  IF Len(data) # 0
        THEN q1 \o << <<"setCustomUrl", href>>,
                      <<"setDocumentTitle", documentTitle>>,
                      data >>
        ELSE q

----------------------------------------------------------------------------
(* The methods that validate and delegate to track: the queue after the    *)
(* call and whether the call threw                                         *)

\* trackEvent that requires the category only
trackEventCategoryOnly(q, p) ==
    LET category == Get(p, "category")
        action == Get(p, "action")
        name == Get(p, "name")
        value == Get(p, "value")
        otherParams == Restrict(p, (DOMAIN p) \ {"category", "action", "name", "value"})
    IN  IF ~Falsy(category)
        THEN [q |-> track(q, otherParams @@
                         [data |-> <<TRACK_TYPES.TRACK_EVENT, category, action,
                                     name, value>>]),
              threw |-> FALSE]
        ELSE [q |-> q, threw |-> TRUE]

trackEvent(q, p) ==
    LET category == Get(p, "category")
        action == Get(p, "action")
        name == Get(p, "name")
        value == Get(p, "value")
        otherParams == Restrict(p, (DOMAIN p) \ {"category", "action", "name", "value"})
    IN  IF ~Falsy(category) /\ ~Falsy(action)
        THEN [q |-> track(q, otherParams @@
                         [data |-> <<TRACK_TYPES.TRACK_EVENT, category, action,
                                     name, value>>]),
              threw |-> FALSE]
        ELSE [q |-> q, threw |-> TRUE]

trackSiteSearch(q, p) ==
    LET keyword == Get(p, "keyword")
        category == Get(p, "category")
        count == Get(p, "count")
        otherParams == Restrict(p, (DOMAIN p) \ {"keyword", "category", "count"})
    IN  IF ~Falsy(keyword)
        THEN [q |-> track(q, otherParams @@
                         [data |-> <<TRACK_TYPES.TRACK_SEARCH, keyword, category,
                                     count>>]),
              threw |-> FALSE]
        ELSE [q |-> q, threw |-> TRUE]

\* trackLink that goes through track like the other methods
trackLinkViaTrack(q, p) ==
    LET href == Get(p, "href")
        linkType == IF "linkType" \in DOMAIN p THEN p.linkType ELSE "link"
    IN  track(q, [data |-> <<TRACK_TYPES.TRACK_LINK, href, linkType>>])

trackLink(q, p) ==
    LET href == Get(p, "href")
        linkType == IF "linkType" \in DOMAIN p THEN p.linkType ELSE "link"
    IN  Append(q, <<TRACK_TYPES.TRACK_LINK, href, linkType>>)

trackPageView(q, params) ==
    track(q, params @@ [data |-> <<TRACK_TYPES.TRACK_VIEW>>])

----------------------------------------------------------------------------
(* trackEvents: the click listener and the dispatch of one click *)

\* the listener attached by trackEvents to element e
clickListener(q, e) ==
    LET matomoCategory == Elements[e].category
        matomoAction == Elements[e].action
        matomoName == Elements[e].name
        matomoValue == Elements[e].value
    IN  IF ~Falsy(matomoCategory) /\ ~Falsy(matomoAction)
        THEN trackEvent(q, [category |-> matomoCategory, action |-> matomoAction,
                            name |-> matomoName, value |-> Number(matomoValue)])
        ELSE [q |-> q, threw |-> TRUE]

\* one click on e runs its k listeners in turn; an error thrown by one
\* listener is reported and does not stop the others
RECURSIVE dispatchClick(_, _, _)
dispatchClick(q, e, k) ==
    IF k = 0 THEN [q |-> q, threw |-> 0]
    ELSE LET one == clickListener(q, e)
             rest == dispatchClick(one.q, e, k - 1)
         IN  [q |-> rest.q, threw |-> rest.threw + (IF one.threw THEN 1 ELSE 0)]

\* trackEvents that attaches a listener only to an element that has none
addListenersOnce(ls) ==
    [e \in DOMAIN ls |-> IF e \in querySelectorAll /\ ls[e] = 0 THEN 1 ELSE ls[e]]

\* the listeners after one call of trackEvents
addListeners(ls) ==
    [e \in DOMAIN ls |-> IF e \in querySelectorAll THEN ls[e] + 1 ELSE ls[e]]

----------------------------------------------------------------------------
(* MatomoTracker.initialize: window._paq and the document after the call *)

\* initialize with the four commands pushed outside the queue-empty guard
initializeCommandsUnguarded(defined, q, d, o) ==
    LET urlBase == IF LastChar(o.urlBase) # "/"
                   THEN o.urlBase \o <<"/">> ELSE o.urlBase
        q0 == IF defined THEN q ELSE <<>>
        scriptElement ==
            [tag |-> "script", type |-> "text/javascript", async |-> TRUE,
             defer |-> TRUE,
             src |-> IF FalsyUrl(o, "srcUrl") THEN urlBase \o <<"matomo.js">>
                     ELSE o.srcUrl]
        scripts == FirstScript(d)
    IN  [paq |-> q0 \o
             << <<"setTrackerUrl",
                  IF FalsyUrl(o, "trackerUrl") THEN urlBase \o <<"matomo.php">>
                  ELSE o.trackerUrl>>,
                <<"setSiteId", Get(o, "siteId")>>,
                <<"enableHeartBeatTimer">>,
                <<"enableLinkTracking">> >>,
         doc |-> IF Len(q0) = 0 /\ scripts # 0
                 THEN InsertBefore(d, scriptElement, scripts)
                 ELSE d]

\* initialize with the script injected outside the queue-empty guard
initializeScriptUnguarded(defined, q, d, o) ==
    LET urlBase == IF LastChar(o.urlBase) # "/"
                   THEN o.urlBase \o <<"/">> ELSE o.urlBase
        q0 == IF defined THEN q ELSE <<>>
        scriptElement ==
            [tag |-> "script", type |-> "text/javascript", async |-> TRUE,
             defer |-> TRUE,
             src |-> IF FalsyUrl(o, "srcUrl") THEN urlBase \o <<"matomo.js">>
                     ELSE o.srcUrl]
        scripts == FirstScript(d)
    IN  [paq |-> IF Len(q0) = 0
                 THEN q0 \o
                      << <<"setTrackerUrl",
                           IF FalsyUrl(o, "trackerUrl") THEN urlBase \o <<"matomo.php">>
                           ELSE o.trackerUrl>>,
                         <<"setSiteId", Get(o, "siteId")>>,
                         <<"enableHeartBeatTimer">>,
                         <<"enableLinkTracking">> >>
                 ELSE q0,
         doc |-> IF scripts # 0 THEN InsertBefore(d, scriptElement, scripts)
                 ELSE d]

initialize(defined, q, d, o) ==
    LET urlBase == IF LastChar(o.urlBase) # "/"
                   THEN o.urlBase \o <<"/">> ELSE o.urlBase
        q0 == IF defined THEN q ELSE <<>>
        scriptElement ==
            [tag |-> "script", type |-> "text/javascript", async |-> TRUE,
             defer |-> TRUE,
             src |-> IF FalsyUrl(o, "srcUrl") THEN urlBase \o <<"matomo.js">>
                     ELSE o.srcUrl]
        scripts == FirstScript(d)
    IN  IF Len(q0) = 0
        THEN [paq |-> q0 \o
                 << <<"setTrackerUrl",
                      IF FalsyUrl(o, "trackerUrl") THEN urlBase \o <<"matomo.php">>
                      ELSE o.trackerUrl>>,
                    <<"setSiteId", Get(o, "siteId")>>,
                    <<"enableHeartBeatTimer">>,
                    <<"enableLinkTracking">> >>,
              \* an element of the document always has a parentNode
              doc |-> IF scripts # 0 THEN InsertBefore(d, scriptElement, scripts)
                      ELSE d]
        ELSE [paq |-> q0, doc |-> d]

----------------------------------------------------------------------------
(* Inputs *)

UserOptions ==
    { Restrict(o, K) :
        o \in [urlBase : {<<>>, <<"http://x">>, <<"http://x", "/">>},
               siteId : {"1"},
               trackerUrl : {<<"http://t/t.php">>},
               srcUrl : {<<"http://s/s.js">>}],
        K \in {{}, {"siteId"}, {"urlBase", "siteId"},
               {"urlBase", "siteId", "trackerUrl", "srcUrl"}} }

Dimension1 == [id |-> 1, value |-> "v1"]
Dimension2 == [id |-> 2, value |-> "v2"]

CustomDimensions ==
    { NoDimensions,
      [isArray |-> TRUE, items |-> <<>>],
      [isArray |-> TRUE, items |-> <<Dimension2, Dimension1>>] }

\* documentTitle, href, customDimensions: each given or left out
AuxParams ==
    { Restrict(a, K) :
        a \in [documentTitle : {"T"}, href : {"h"},
               customDimensions : CustomDimensions],
        K \in {{}, {"customDimensions"}, {"documentTitle", "href"},
               {"documentTitle", "href", "customDimensions"}} }

TrackParams ==
    AuxParams \cup
    { a @@ [data |-> d] : a \in AuxParams, d \in {<<>>, <<"ping">>} }

TrackEventParams ==
    { a @@ e : a \in AuxParams,
               e \in { [category |-> "c", action |-> "a"],
                       [category |-> "c"],
                       [category |-> "", action |-> "a"] } }

TrackSiteSearchParams ==
    { a @@ s : a \in AuxParams,
               s \in { [keyword |-> "k", category |-> "sc", count |-> "#3"],
                       [category |-> "sc"],
                       [keyword |-> ""] } }

TrackLinkParams == { [href |-> "out"], [href |-> "out", linkType |-> "download"] }

----------------------------------------------------------------------------
(* The state machine *)

Init ==
    /\ paqDefined \in BOOLEAN
    /\ paq \in IF paqDefined THEN {<<>>, << <<"setCustomUrl", "early">> >>} ELSE {<<>>}
    /\ doc \in {<<Div>>, <<Div, PageScript, PageScript>>}
    /\ instances = 0
    /\ listeners = [e \in DOMAIN Elements |-> 0]
    /\ binds = 0
    /\ calls = 0
    /\ last = [op |-> "none", args |-> <<>>, threw |-> 0]
    /\ start = [paqDefined |-> paqDefined, paq |-> paq, doc |-> doc]

\* a check that rejects an absent urlBase only
urlBaseAbsent(options) == "urlBase" \notin DOMAIN options

\* the constructor's check of the merged options
urlBaseMissing(options) == FalsyUrl(options, "urlBase")

\* new MatomoTracker(userOptions)
New(userOptions) ==
    LET options == userOptions @@ defaultOptions
        r == initialize(paqDefined, paq, doc, options)
    IN  /\ instances < MaxConstructions
        /\ IF urlBaseMissing(options)
           THEN /\ last' = [op |-> "constructor", args |-> userOptions, threw |-> 1]
                /\ UNCHANGED <<paqDefined, paq, doc, instances>>
           ELSE /\ paqDefined' = TRUE
                /\ paq' = r.paq
                /\ doc' = r.doc
                /\ instances' = instances + 1
                /\ last' = [op |-> "constructor", args |-> userOptions, threw |-> 0]
        /\ UNCHANGED <<listeners, binds, calls, start>>

\* tracker.trackEvents()
CallTrackEvents ==
    /\ instances >= 1
    /\ binds < MaxBinds
    /\ binds' = binds + 1
    /\ listeners' = addListeners(listeners)
    /\ last' = [op |-> "trackEvents", args |-> <<>>, threw |-> 0]
    /\ UNCHANGED <<paqDefined, paq, doc, instances, calls, start>>

\* a click on element e
Click(e) ==
    LET r == dispatchClick(paq, e, listeners[e])
    IN  /\ calls < MaxCalls
        /\ calls' = calls + 1
        /\ paq' = r.q
        /\ last' = [op |-> "click", args |-> e, threw |-> r.threw]
        /\ UNCHANGED <<paqDefined, doc, instances, listeners, binds, start>>

\* a method call on a constructed tracker
Method(name, p, r) ==
    /\ instances >= 1
    /\ calls < MaxCalls
    /\ calls' = calls + 1
    /\ paq' = r.q
    /\ last' = [op |-> name, args |-> p, threw |-> IF r.threw THEN 1 ELSE 0]
    /\ UNCHANGED <<paqDefined, doc, instances, listeners, binds, start>>

CallTrackEvent(p) == Method("trackEvent", p, trackEvent(paq, p))

CallTrackSiteSearch(p) == Method("trackSiteSearch", p, trackSiteSearch(paq, p))

CallTrackLink(p) == Method("trackLink", p, [q |-> trackLink(paq, p), threw |-> FALSE])

CallTrackPageView(p) ==
    Method("trackPageView", p, [q |-> trackPageView(paq, p), threw |-> FALSE])

CallTrack(p) == Method("track", p, [q |-> track(paq, p), threw |-> FALSE])

Next ==
    \/ \E o \in UserOptions : New(o)
    \/ CallTrackEvents
    \/ \E e \in DOMAIN Elements : Click(e)
    \/ \E p \in TrackEventParams : CallTrackEvent(p)
    \/ \E p \in TrackSiteSearchParams : CallTrackSiteSearch(p)
    \/ \E p \in TrackLinkParams : CallTrackLink(p)
    \/ \E p \in AuxParams : CallTrackPageView(p)
    \/ \E p \in TrackParams : CallTrack(p)

Spec == Init /\ [][Next]_vars

----------------------------------------------------------------------------
(* Vocabulary of the properties *)

InitCommands ==
    {"setTrackerUrl", "setSiteId", "enableHeartBeatTimer", "enableLinkTracking"}

\* positions in the queue q of tuples whose command name is in names
Positions(q, names) == {i \in 1..Len(q) : q[i][1] \in names}

\* positions in the document d of the script elements built by initialize
Injected(d) ==
    {i \in 1..Len(d) : d[i].tag = "script" /\ d[i].async /\ d[i].defer}

\* the global queue was absent or empty before the first call
StartedEmpty == start.paq = <<>>

\* the step just taken was a successful construction
Constructed == instances' = instances + 1

TrackOps == {"track", "trackEvent", "trackSiteSearch", "trackPageView"}

\* the primary command tuple a call is to queue
CommandOf(op, a) ==
    CASE op = "track" -> IF "data" \in DOMAIN a THEN a.data ELSE <<>>
      [] op = "trackEvent" ->
            <<"trackEvent", Get(a, "category"), Get(a, "action"), Get(a, "name"),
              Get(a, "value")>>
      [] op = "trackSiteSearch" ->
            <<"trackSiteSearch", Get(a, "keyword"), Get(a, "category"),
              Get(a, "count")>>
      [] op = "trackPageView" -> <<"trackPageView">>

\* the call has its required fields
Valid(op, a) ==
    CASE op = "trackEvent" -> Get(a, "category") \notin {Undefined, ""}
                              /\ Get(a, "action") \notin {Undefined, ""}
      [] op = "trackSiteSearch" -> Get(a, "keyword") \notin {Undefined, ""}
      [] OTHER -> TRUE

\* the custom dimensions supplied with a call, <<>> when none or false
DimensionsOf(a) ==
    IF "customDimensions" \in DOMAIN a /\ a.customDimensions.isArray
    THEN a.customDimensions.items ELSE <<>>

HrefOf(a) == IF "href" \in DOMAIN a THEN a.href ELSE "page href"

TitleOf(a) == IF "documentTitle" \in DOMAIN a THEN a.documentTitle ELSE "page title"

----------------------------------------------------------------------------
(* C1: starting from an absent or empty queue, once a wrapper has been     *)
(* constructed the queue holds exactly four initialization tuples, and     *)
(* they are its first four entries, in the order setTrackerUrl, setSiteId, *)
(* enableHeartBeatTimer, enableLinkTracking, however many constructions    *)
(* and tracking calls follow.                                              *)
C1_InitCommandsOnce ==
    (StartedEmpty /\ instances >= 1) =>
        /\ Len(paq) >= 4
        /\ paq[1][1] = "setTrackerUrl"
        /\ paq[2][1] = "setSiteId"
        /\ paq[3] = <<"enableHeartBeatTimer">>
        /\ paq[4] = <<"enableLinkTracking">>
        /\ Positions(paq, InitCommands) = 1..4

\* a second construction made after a tracking call has queued its tuples
C1_Witness ==
    /\ StartedEmpty
    /\ instances = 2
    /\ last.op = "constructor" /\ last.threw = 0
    /\ Len(paq) > 4

(* C2: a call of track, trackEvent, trackSiteSearch or trackPageView that  *)
(* passes validation with a non-empty command tuple and N custom           *)
(* dimensions appends exactly N + 3 tuples: the N setCustomDimension       *)
(* tuples in the supplied order, setCustomUrl with the resolved URL,       *)
(* setDocumentTitle with the resolved title, then the command tuple.       *)
C2_TrackAppendsInOrder ==
    [][ (/\ last'.op \in TrackOps
         /\ Valid(last'.op, last'.args)
         /\ CommandOf(last'.op, last'.args) # <<>>) =>
            LET a == last'.args
                dims == DimensionsOf(a)
                N == Len(dims)
                n == Len(paq)
            IN  /\ last'.threw = 0
                /\ Len(paq') = n + N + 3
                /\ SubSeq(paq', 1, n) = paq
                /\ \A i \in 1..N :
                      paq'[n + i] = <<"setCustomDimension", dims[i].id, dims[i].value>>
                /\ paq'[n + N + 1] = <<"setCustomUrl", HrefOf(a)>>
                /\ paq'[n + N + 2] = <<"setDocumentTitle", TitleOf(a)>>
                /\ paq'[n + N + 3] = CommandOf(last'.op, a) ]_vars

\* a site search with two dimensions has queued its five tuples
C2_Witness ==
    /\ last.op = "trackSiteSearch"
    /\ last.threw = 0
    /\ Len(DimensionsOf(last.args)) = 2
    /\ Len(paq) >= 5
    /\ paq[Len(paq) - 4][1] = "setCustomDimension"
    /\ paq[Len(paq)][1] = "trackSiteSearch"

C4_EveryConstructionInjects ==
    FirstScript(start.doc) # 0 => Cardinality(Injected(doc)) = instances

(* C4 as amended: the injection is under the queue-empty guard.  A         *)
(* construction made while the queue is non-empty leaves the document      *)
(* unchanged, and a construction on a document that has a script element   *)
(* inserts one script element when the queue is absent or empty.           *)
C4_InjectionGuarded ==
    [][ Constructed =>
            IF paqDefined /\ paq # <<>>
            THEN doc' = doc
            ELSE FirstScript(doc) # 0 =>
                    /\ Len(doc') = Len(doc) + 1
                    /\ Cardinality(Injected(doc')) = Cardinality(Injected(doc)) + 1 ]_vars

\* a second construction, on a non-empty queue, of a page that had a script
C4_Witness ==
    /\ instances = 2
    /\ last.op = "constructor" /\ last.threw = 0
    /\ FirstScript(start.doc) # 0
    /\ StartedEmpty
    /\ Len(doc) = Len(start.doc) + 1

(* C5: a construction that reaches the injection step (the queue is absent *)
(* or empty) places the new script element immediately before the first    *)
(* script element of the document when there is one and appends it to the  *)
(* document when there is none.                                            *)
C5_InsertedOrAppended ==
    [][ (Constructed /\ ~(paqDefined /\ paq # <<>>)) =>
            LET f == FirstScript(doc)
            IN  /\ Len(doc') = Len(doc) + 1
                /\ IF f # 0
                   THEN /\ f \in Injected(doc')
                        /\ doc' = InsertBefore(doc, doc'[f], f)
                   ELSE /\ Len(doc') \in Injected(doc')
                        /\ SubSeq(doc', 1, Len(doc)) = doc ]_vars

(* C6: trackEvent without a category or an action, and trackSiteSearch     *)
(* without a keyword, throws and leaves the queue unchanged, whatever the  *)
(* other parameters are.                                                   *)
C6_InvalidCallThrows ==
    [][ (last'.op \in {"trackEvent", "trackSiteSearch"}
         /\ ~Valid(last'.op, last'.args)) =>
            /\ last'.threw = 1
            /\ paq' = paq ]_vars

\* an event without action and with two dimensions was rejected
C6_Witness ==
    /\ last.op = "trackEvent"
    /\ "action" \notin DOMAIN last.args
    /\ Len(DimensionsOf(last.args)) = 2
    /\ last.threw = 1

(* C7: a construction whose base URL is missing or empty throws and        *)
(* changes neither the queue nor the document; a construction with a       *)
(* non-empty base URL succeeds and leaves the queue defined.               *)
C7_ConstructionNeedsUrlBase ==
    [][ last'.op = "constructor" =>
            IF "urlBase" \notin DOMAIN last'.args \/ last'.args.urlBase = <<>>
            THEN /\ last'.threw = 1
                 /\ UNCHANGED <<paqDefined, paq, doc, instances>>
            ELSE /\ last'.threw = 0
                 /\ paqDefined'
                 /\ Constructed ]_vars

\* a construction with an empty base URL failed while the queue was absent
C7_Witness ==
    /\ last.op = "constructor"
    /\ "urlBase" \in DOMAIN last.args
    /\ last.args.urlBase = <<>>
    /\ last.threw = 1
    /\ ~paqDefined

(* C8: trackLink appends the single tuple [trackLink, href, linkType],     *)
(* linkType being 'link' when not supplied, leaves the earlier entries     *)
(* unchanged and does not throw.                                           *)
C8_TrackLinkAppendsOne ==
    [][ last'.op = "trackLink" =>
            /\ last'.threw = 0
            /\ paq' = Append(paq,
                  <<"trackLink", last'.args.href,
                    IF "linkType" \in DOMAIN last'.args THEN last'.args.linkType
                    ELSE "link">>) ]_vars

\* a link without linkType was queued with the default
C8_Witness ==
    /\ last.op = "trackLink"
    /\ "linkType" \notin DOMAIN last.args
    /\ Len(paq) >= 1
    /\ paq[Len(paq)] = <<"trackLink", "out", "link">>

(* C9: track with an empty or omitted command tuple appends nothing and    *)
(* does not throw, whatever documentTitle, href and customDimensions are.  *)
C9_EmptyDataIsNoOp ==
    [][ (last'.op = "track" /\ CommandOf("track", last'.args) = <<>>) =>
            /\ paq' = paq
            /\ last'.threw = 0 ]_vars

\* an empty track call carrying two dimensions was made
C9_Witness ==
    /\ last.op = "track"
    /\ "data" \in DOMAIN last.args
    /\ last.args.data = <<>>
    /\ Len(DimensionsOf(last.args)) = 2

\* the queue q followed by k copies of the tuples of s
RECURSIVE Repeat(_, _, _)
Repeat(q, s, k) == IF k = 0 THEN q ELSE Repeat(q \o s, s, k - 1)

\* the three tuples one listener of element e queues
EventGroup(e) ==
    << <<"setCustomUrl", "page href">>,
       <<"setDocumentTitle", "page title">>,
       <<"trackEvent", Elements[e].category, Elements[e].action, Elements[e].name,
         CASE Elements[e].value = "5" -> "#5" [] OTHER -> "#NaN">> >>

(* C10: after K calls of trackEvents, one click on a marked element that   *)
(* has category and action appends K event groups, one click on a marked   *)
(* element without category or action makes each of the K listeners throw  *)
(* and appends nothing, and trackEvents itself appends nothing.            *)
C10_ListenersPerCall ==
    [][ /\ last'.op = "trackEvents" => paq' = paq
        /\ last'.op = "click" =>
              LET e == last'.args
              IN  IF Elements[e].event # "click"
                  THEN paq' = paq /\ last'.threw = 0
                  ELSE IF Elements[e].category \in {Undefined, ""}
                          \/ Elements[e].action \in {Undefined, ""}
                       THEN paq' = paq /\ last'.threw = binds
                       ELSE paq' = Repeat(paq, EventGroup(e), binds)
                            /\ last'.threw = 0 ]_vars

\* one click after two calls of trackEvents has queued two event groups
C10_Witness ==
    /\ last.op = "click"
    /\ last.args = "btnOk"
    /\ binds = 2
    /\ Len(paq) >= 6
    /\ paq[Len(paq)][1] = "trackEvent"
    /\ paq[Len(paq) - 3][1] = "trackEvent"

====
